---- MODULE Spec2Model ----
(***************************************************************************)
(* University Services dashboard (src/app.py): the data-access layer       *)
(* (get_connection, run_query, fetch_data) and the page script that calls  *)
(* it.  The relational store is modelled by the three tables the           *)
(* statements of the script name; money is counted in cents.               *)
(***************************************************************************)
EXTENDS Integers, Sequences, FiniteSets, TLC

VARIABLES
    Students,         \* table Students: set of rows, student_id is the key
    Services,         \* table Services: rows in service_id order
    StudentServices,  \* table StudentServices: rows in insertion (id) order
    conns,            \* connections that were opened and not closed
    pc,               \* line of the script the current run has reached
    button,           \* the click that started this run is not yet consumed
    call,             \* the last call into the data-access layer, if any, since
                      \* the last user interaction
    df,               \* the value the last fetch_data call returned
    students,         \* script local `students` while tab_assign uses it
    services,         \* script local `services` while tab_assign uses it
    total_students,   \* script local `total_students`
    total_services,   \* script local `total_services`
    ui,               \* what the last step rendered
    exc,              \* exception that ended the current run, if any
    nfetch,           \* fetch_data calls since the last user interaction
    nrun,             \* run_query calls since the last user interaction
    delete_run,       \* the student the last commands deleted, and how often
    form              \* widget values read by the last "Confirm Service Record"

vars == <<Students, Services, StudentServices, conns, pc, button, call, df,
          students, services, total_students, total_services, ui, exc,
          nfetch, nrun, delete_run, form>>

----------------------------------------------------------------------------
(* Bounds of the model *)

MaxServices == 1
MaxAssign == 2
MaxConns == 1

(* Input domains of the forms *)

StudentIds == <<"S104", "S105">>
IdInputs == {"", "S104", "S105"}
FirstNameInputs == {"", "Ada"}
LastNameInputs == {"Lovelace"}
EmailInputs == {"ada@example.com"}
ServiceNameInputs == {"Tutoring"}
BaseCostTyped == {-500, 2500}
FinalCostTyped == {-500, 2000}
DateInputs == {"2026-01-15"}
SearchInputs == {"", "Ada", "Zed"}

----------------------------------------------------------------------------
(* The statements the script issues *)

Q_COUNT_STUDENTS == "SELECT COUNT(*) as count FROM Students"
Q_COUNT_ASSIGN == "SELECT COUNT(*) as count FROM StudentServices"
Q_AVG_COST == "SELECT AVG(service_cost) as avg_cost FROM StudentServices"
Q_TOTAL_COST == "SELECT * FROM vw_total_cost_per_student"
Q_POPULARITY == "SELECT sv.service_name, COUNT(*) as usage_count FROM StudentServices ss JOIN Services sv ON ss.service_id = sv.service_id GROUP BY sv.service_name"
Q_HISTORY_LIKE == "SELECT * FROM vw_student_services WHERE student_name LIKE %s"
Q_HISTORY == "SELECT * FROM vw_student_services"
Q_STUDENTS == "SELECT * FROM Students"
Q_SERVICES == "SELECT * FROM Services"
Q_ASSIGN_STUDENTS == "SELECT student_id, first_name, last_name FROM Students"
Q_ASSIGN_SERVICES == "SELECT service_id, service_name, base_cost FROM Services"

INSERT_STUDENT == "INSERT INTO Students (student_id, first_name, last_name, email) VALUES (%s, %s, %s, %s)"
DELETE_STUDENT == "DELETE FROM Students WHERE student_id = %s"
INSERT_SERVICE == "INSERT INTO Services (service_name, base_cost) VALUES (%s, %s)"
INSERT_ASSIGN == "INSERT INTO StudentServices (student_id, service_id, service_date, service_cost) VALUES (%s, %s, %s, %s)"

----------------------------------------------------------------------------
(* Tables as pandas sees them *)

DataFrame(columns, rows) == [columns |-> columns, rows |-> rows]

\* pd.DataFrame(): no columns, no rows
EmptyDataFrame == DataFrame(<<>>, <<>>)

\* DataFrame.empty: some axis has length 0
empty(frame) == Len(frame.columns) = 0 \/ Len(frame.rows) = 0

RECURSIVE SumCost(_)
SumCost(rows) ==
    IF rows = <<>> THEN 0 ELSE Head(rows).service_cost + SumCost(Tail(rows))

\* round(x, 2) of x = sum/n cents, ties to even
Round2(sum, n) ==
    LET q == sum \div n
        r == sum % n
    IN  IF 2 * r < n THEN q
        ELSE IF 2 * r > n THEN q + 1
        ELSE IF q % 2 = 0 THEN q ELSE q + 1

HasStudent(T, id) == \E s \in T : s.student_id = id
StudentOf(T, id) == CHOOSE s \in T : s.student_id = id

\* rows of Students in key order
StudentRows(T) ==
    LET F[i \in 0..Len(StudentIds)] ==
            IF i = 0 THEN <<>>
            ELSE IF HasStudent(T, StudentIds[i])
                 THEN Append(F[i - 1], StudentOf(T, StudentIds[i]))
                 ELSE F[i - 1]
    IN  F[Len(StudentIds)]

AssignOf(SS, id) == SelectSeq(SS, LAMBDA r : r.student_id = id)

----------------------------------------------------------------------------
(* The store: what the statements of the script mean *)

NULL == <<>>
Value(v) == <<v>>

ServiceById(SV, id) == SV[CHOOSE i \in 1..Len(SV) : SV[i].service_id = id]
HasService(SV, id) == \E i \in 1..Len(SV) : SV[i].service_id = id

\* view vw_total_cost_per_student(student_id, total_cost)
TotalCostRows(T, SS) ==
    LET F[i \in 0..Len(StudentIds)] ==
            IF i = 0 THEN <<>>
            ELSE IF AssignOf(SS, StudentIds[i]) # <<>>
                 THEN Append(F[i - 1],
                             [student_id |-> StudentIds[i],
                              total_cost |-> SumCost(AssignOf(SS, StudentIds[i]))])
                 ELSE F[i - 1]
    IN  F[Len(StudentIds)]

\* view vw_student_services(student_id, student_name, service_name,
\*                          service_date, service_cost)
HistoryRow(T, SV, r) ==
    [student_id |-> r.student_id,
     student_name |-> StudentOf(T, r.student_id).first_name \o " "
                        \o StudentOf(T, r.student_id).last_name,
     service_name |-> ServiceById(SV, r.service_id).service_name,
     service_date |-> r.service_date,
     service_cost |-> r.service_cost]

HistoryRows(T, SV, SS) == [i \in 1..Len(SS) |-> HistoryRow(T, SV, SS[i])]

\* student_name LIKE %term%, for a term that is a whole word of the name
Like(s, term) == term = s.first_name \/ term = s.last_name

HistoryLikeRows(T, SV, SS, term) ==
    HistoryRows(T, SV,
        SelectSeq(SS, LAMBDA r : Like(StudentOf(T, r.student_id), term)))

UsageCount(SV, SS, name) ==
    Len(SelectSeq(SS, LAMBDA r : ServiceById(SV, r.service_id).service_name = name))

\* GROUP BY sv.service_name over the join: one row per name in use
PopularityRows(SV, SS) ==
    LET F[i \in 0..Len(SV)] ==
            IF i = 0 THEN <<>>
            ELSE IF /\ UsageCount(SV, SS, SV[i].service_name) > 0
                    /\ \A j \in 1..(i - 1) : SV[j].service_name # SV[i].service_name
                 THEN Append(F[i - 1],
                             [service_name |-> SV[i].service_name,
                              usage_count |-> UsageCount(SV, SS, SV[i].service_name)])
                 ELSE F[i - 1]
    IN  F[Len(SV)]

\* AVG over a DECIMAL(.,2) column: NULL over no rows, else the quotient
\* kept to four more decimals (unit 1/10000 cent), rounded half up
AvgCost(SS) ==
    IF SS = <<>> THEN NULL
    ELSE Value((2 * 10000 * SumCost(SS) + Len(SS)) \div (2 * Len(SS)))

NameRows(T) ==
    LET R == StudentRows(T)
    IN  [i \in 1..Len(R) |-> [student_id |-> R[i].student_id,
                              first_name |-> R[i].first_name,
                              last_name |-> R[i].last_name]]

\* the result set of a read statement on the tables T, SV, SS
Select(query, params, T, SV, SS) ==
    CASE query = Q_COUNT_STUDENTS ->
            DataFrame(<<"count">>, <<[count |-> Cardinality(T)]>>)
      [] query = Q_COUNT_ASSIGN ->
            DataFrame(<<"count">>, <<[count |-> Len(SS)]>>)
      [] query = Q_AVG_COST ->
            DataFrame(<<"avg_cost">>, <<[avg_cost |-> AvgCost(SS)]>>)
      [] query = Q_TOTAL_COST ->
            DataFrame(<<"student_id", "total_cost">>, TotalCostRows(T, SS))
      [] query = Q_POPULARITY ->
            DataFrame(<<"service_name", "usage_count">>, PopularityRows(SV, SS))
      [] query = Q_HISTORY_LIKE ->
            DataFrame(<<"student_id", "student_name", "service_name",
                        "service_date", "service_cost">>,
                      HistoryLikeRows(T, SV, SS, params[1]))
      [] query = Q_HISTORY ->
            DataFrame(<<"student_id", "student_name", "service_name",
                        "service_date", "service_cost">>,
                      HistoryRows(T, SV, SS))
      [] query = Q_STUDENTS ->
            DataFrame(<<"student_id", "first_name", "last_name", "email">>,
                      StudentRows(T))
      [] query = Q_SERVICES ->
            DataFrame(<<"service_id", "service_name", "base_cost">>, SV)
      [] query = Q_ASSIGN_STUDENTS ->
            DataFrame(<<"student_id", "first_name", "last_name">>, NameRows(T))
      [] query = Q_ASSIGN_SERVICES ->
            DataFrame(<<"service_id", "service_name", "base_cost">>, SV)

Tables(T, SV, SS) == [Students |-> T, Services |-> SV, StudentServices |-> SS]

\* the tables after a write statement, or the store's refusal of it.
\* rule is the ON DELETE rule of the StudentServices.student_id reference.
Execute(query, params, rule, T, SV, SS) ==
    CASE query = INSERT_STUDENT ->
            IF HasStudent(T, params[1])
            THEN [ok |-> FALSE, rowcount |-> 0, tables |-> Tables(T, SV, SS)]
            ELSE [ok |-> TRUE, rowcount |-> 1,
                  tables |-> Tables(T \cup {[student_id |-> params[1],
                                             first_name |-> params[2],
                                             last_name |-> params[3],
                                             email |-> params[4]]}, SV, SS)]
      [] query = DELETE_STUDENT ->
            IF AssignOf(SS, params[1]) # <<>> /\ rule = "RESTRICT"
            THEN [ok |-> FALSE, rowcount |-> 0, tables |-> Tables(T, SV, SS)]
            ELSE [ok |-> TRUE,
                  rowcount |-> Cardinality({s \in T : s.student_id = params[1]}),
                  tables |-> Tables({s \in T : s.student_id # params[1]}, SV,
                                    SelectSeq(SS, LAMBDA r : r.student_id # params[1]))]
      [] query = INSERT_SERVICE ->
            [ok |-> TRUE, rowcount |-> 1,
             tables |-> Tables(T, Append(SV, [service_id |-> Len(SV) + 1,
                                              service_name |-> params[1],
                                              base_cost |-> params[2]]), SS)]
      [] query = INSERT_ASSIGN ->
            IF HasStudent(T, params[1]) /\ HasService(SV, params[2])
            THEN [ok |-> TRUE, rowcount |-> 1,
                  tables |-> Tables(T, SV, Append(SS, [student_id |-> params[1],
                                                       service_id |-> params[2],
                                                       service_date |-> params[3],
                                                       service_cost |-> params[4]]))]
            ELSE [ok |-> FALSE, rowcount |-> 0, tables |-> Tables(T, SV, SS)]

----------------------------------------------------------------------------
(* The data-access layer *)

\* fetch_data with `except mysql.connector.Error`: what pandas raises escapes
fetch_data_narrow_except(query, params, fault, T, SV, SS) ==
    [ret |-> IF fault = "none" THEN Select(query, params, T, SV, SS)
             ELSE EmptyDataFrame,
     conn |-> CASE fault = "connect" -> "none"
                [] fault = "none" -> "closed"
                [] OTHER -> "open",
     raised |-> fault = "read_sql"]

\* fetch_data that hands back pd.DataFrame() whenever the result has no rows
fetch_data_drop_empty(query, params, fault, T, SV, SS) ==
    [ret |-> IF fault = "none" /\ Len(Select(query, params, T, SV, SS).rows) > 0
             THEN Select(query, params, T, SV, SS)
             ELSE EmptyDataFrame,
     conn |-> CASE fault = "connect" -> "none"
                [] fault = "none" -> "closed"
                [] OTHER -> "open",
     raised |-> FALSE]

\* fetch_data: the returned table and what became of the connection.
\* fault is the step that raises: "none", "connect", "read_sql" or "close".
fetch_data(query, params, fault, T, SV, SS) ==
    [ret |-> IF fault = "none" THEN Select(query, params, T, SV, SS)
             ELSE EmptyDataFrame,
     conn |-> CASE fault = "connect" -> "none"
                [] fault = "none" -> "closed"
                [] OTHER -> "open",
     raised |-> FALSE]

\* run_query on an autocommit connection: the statement takes effect when it
\* is executed, before commit
run_query_autocommit(query, params, fault, kind, rule, T, SV, SS) ==
    LET connected == fault # "connect"
        has_cursor == connected /\ fault # "cursor"
        reached == has_cursor /\ fault # "execute"
        ex == Execute(query, params, rule, T, SV, SS)
        refused == reached /\ ~ex.ok
        committed == fault = "none" /\ ex.ok
        error == IF committed THEN "none"
                 ELSE IF refused THEN "db"
                 ELSE kind
    IN  [tables |-> IF reached /\ ex.ok THEN ex.tables ELSE Tables(T, SV, SS),
         signal |-> IF committed THEN "toast"
                    ELSE IF error = "db" THEN "error" ELSE "none",
         raised |-> error = "other",
         error |-> error,
         rowcount |-> IF committed THEN ex.rowcount ELSE 0,
         cursor |-> IF has_cursor THEN "closed" ELSE "none",
         conn |-> IF connected THEN "closed" ELSE "none"]

\* run_query that closes in the try body and the except clause, no finally
run_query_no_finally(query, params, fault, kind, rule, T, SV, SS) ==
    LET connected == fault # "connect"
        has_cursor == connected /\ fault # "cursor"
        reached == has_cursor /\ fault # "execute"
        ex == Execute(query, params, rule, T, SV, SS)
        refused == reached /\ ~ex.ok
        committed == fault = "none" /\ ex.ok
        error == IF committed THEN "none"
                 ELSE IF refused THEN "db"
                 ELSE kind
    IN  [tables |-> IF committed THEN ex.tables ELSE Tables(T, SV, SS),
         signal |-> IF committed THEN "toast"
                    ELSE IF error = "db" THEN "error" ELSE "none",
         raised |-> error = "other",
         error |-> error,
         rowcount |-> IF committed THEN ex.rowcount ELSE 0,
         cursor |-> IF has_cursor
                    THEN (IF error = "other" THEN "open" ELSE "closed")
                    ELSE "none",
         conn |-> IF connected
                  THEN (IF error = "other" THEN "open" ELSE "closed")
                  ELSE "none"]

\* run_query that reports a statement that affected no row as an error
run_query_rowcount(query, params, fault, kind, rule, T, SV, SS) ==
    LET connected == fault # "connect"
        has_cursor == connected /\ fault # "cursor"
        reached == has_cursor /\ fault # "execute"
        ex == Execute(query, params, rule, T, SV, SS)
        refused == reached /\ (~ex.ok \/ ex.rowcount = 0)
        committed == fault = "none" /\ ex.ok /\ ex.rowcount > 0
        error == IF committed THEN "none"
                 ELSE IF refused THEN "db"
                 ELSE kind
    IN  [tables |-> IF committed THEN ex.tables ELSE Tables(T, SV, SS),
         signal |-> IF committed THEN "toast"
                    ELSE IF error = "db" THEN "error" ELSE "none",
         raised |-> error = "other",
         error |-> error,
         rowcount |-> IF committed THEN ex.rowcount ELSE 0,
         cursor |-> IF has_cursor THEN "closed" ELSE "none",
         conn |-> IF connected THEN "closed" ELSE "none"]

\* run_query: fault is the step that raises ("none", "connect", "cursor",
\* "execute", "commit"), kind says whether what it raises is a
\* mysql.connector.Error ("db") or another exception ("other").
run_query(query, params, fault, kind, rule, T, SV, SS) ==
    LET connected == fault # "connect"
        has_cursor == connected /\ fault # "cursor"
        reached == has_cursor /\ fault # "execute"
        ex == Execute(query, params, rule, T, SV, SS)
        refused == reached /\ ~ex.ok
        committed == fault = "none" /\ ex.ok
        error == IF committed THEN "none"
                 ELSE IF refused THEN "db"
                 ELSE kind
    IN  [tables |-> IF committed THEN ex.tables ELSE Tables(T, SV, SS),
         signal |-> IF committed THEN "toast"
                    ELSE IF error = "db" THEN "error" ELSE "none",
         raised |-> error = "other",
         error |-> error,
         rowcount |-> IF committed THEN ex.rowcount ELSE 0,
         cursor |-> IF has_cursor THEN "closed" ELSE "none",
         conn |-> IF connected THEN "closed" ELSE "none"]

\* delete_run.n is 1 after a committed delete that removed student id, 2 when
\* committed deletes of the same id followed it directly
NoDelete == [id |-> "", n |-> 0]

FetchFaults ==
    {"none", "connect"} \cup (IF conns < MaxConns THEN {"read_sql", "close"} ELSE {})

RunFaults == {"none", "connect", "cursor", "execute", "commit"}
Kinds(fault) == IF fault = "none" THEN {"db"} ELSE {"db", "other"}
Rules(query) == IF query = DELETE_STUDENT THEN {"CASCADE", "RESTRICT"} ELSE {"RESTRICT"}

\* one call of fetch_data from the script
Fetch(query, params, fault) ==
    LET r == fetch_data(query, params, fault, Students, Services, StudentServices)
    IN  /\ df' = r.ret
        /\ conns' = conns + (IF r.conn = "open" THEN 1 ELSE 0)
        /\ call' = [op |-> "fetch_data", query |-> query, params |-> params,
                    fault |-> fault, error |-> "none", signal |-> "none",
                    raised |-> r.raised, conn |-> r.conn, cursor |-> "none",
                    rowcount |-> 0]
        /\ nfetch' = nfetch + 1
        /\ UNCHANGED <<Students, Services, StudentServices, nrun, delete_run>>

\* one call of run_query from the script
Run(query, params, fault, kind, rule) ==
    LET r == run_query(query, params, fault, kind, rule,
                       Students, Services, StudentServices)
    IN  /\ Students' = r.tables.Students
        /\ Services' = r.tables.Services
        /\ StudentServices' = r.tables.StudentServices
        /\ call' = [op |-> "run_query", query |-> query, params |-> params,
                    fault |-> fault, error |-> r.error, signal |-> r.signal,
                    raised |-> r.raised, conn |-> r.conn, cursor |-> r.cursor,
                    rowcount |-> r.rowcount]
        /\ conns' = conns + (IF r.conn = "open" THEN 1 ELSE 0)
        /\ delete_run' =
              IF query = DELETE_STUDENT /\ r.signal = "toast"
              THEN IF delete_run.id = params[1]
                   THEN [id |-> params[1], n |-> 2]
                   ELSE IF r.rowcount > 0
                   THEN [id |-> params[1], n |-> 1]
                   ELSE NoDelete
              ELSE NoDelete
        /\ nrun' = nrun + 1
        /\ UNCHANGED <<df, nfetch>>

----------------------------------------------------------------------------
(* The page script: one run per user interaction or st.rerun() *)

MinBaseCost == 0
\* line 222: number_input(min_value=0.0) accepts no value below the minimum
BaseCostInputs == {c \in BaseCostTyped : c >= MinBaseCost}

\* line 250: number_input(value=float(default_cost)) has no minimum; the
\* user keeps the default or types an amount
FinalCostInputs(default_cost) == {default_cost} \cup FinalCostTyped

tables == <<Students, Services, StudentServices>>
dal == <<conns, call, df, nfetch, nrun, delete_run>>
locals == <<students, services, total_students, total_services>>

NoCall ==
    [op |-> "none", query |-> "", params |-> <<>>, fault |-> "none",
     error |-> "none", signal |-> "none", raised |-> FALSE,
     conn |-> "none", cursor |-> "none", rowcount |-> 0]

NoForm == [default_cost |-> 0, final_cost |-> 0, used |-> FALSE]

Init ==
    /\ Students = {}
    /\ Services = <<>>
    /\ StudentServices = <<>>
    /\ conns = 0
    /\ pc = "idle"
    /\ button = FALSE
    /\ call = NoCall
    /\ df = EmptyDataFrame
    /\ students = EmptyDataFrame
    /\ services = EmptyDataFrame
    /\ total_students = 0
    /\ total_services = 0
    /\ ui = <<>>
    /\ exc = "none"
    /\ nfetch = 0
    /\ nrun = 0
    /\ delete_run = NoDelete
    /\ form = NoForm

ClearLocals ==
    /\ students' = EmptyDataFrame
    /\ services' = EmptyDataFrame
    /\ total_students' = 0
    /\ total_services' = 0

\* the script ends, normally (e = "none") or with the exception e uncaught
EndRun(e) ==
    /\ pc' = "idle"
    /\ exc' = e
    /\ button' = FALSE
    /\ ClearLocals

\* st.rerun(): the run stops here and the script starts again, no button set
Rerun ==
    /\ pc' = "L96"
    /\ exc' = "none"
    /\ button' = FALSE
    /\ ClearLocals

\* a widget event starts a run; button says whether a button was clicked
Interact ==
    /\ pc = "idle"
    /\ pc' = "L96"
    /\ button' \in BOOLEAN
    /\ exc' = "none"
    /\ ui' = <<>>
    /\ nfetch' = 0
    /\ nrun' = 0
    /\ form' = NoForm
    /\ call' = NoCall
    /\ df' = EmptyDataFrame
    /\ UNCHANGED <<tables, conns, delete_run, locals>>

\* frame.iloc[0][column]: IndexError on a frame without rows
HasRow(frame) == Len(frame.rows) > 0

\* line 96
L96 ==
    /\ pc = "L96"
    /\ UNCHANGED form
    /\ \E fault \in FetchFaults : Fetch(Q_COUNT_STUDENTS, <<>>, fault)
    /\ ui' = <<>>
    /\ IF call'.raised THEN EndRun("Exception")
       ELSE IF ~HasRow(df') THEN EndRun("IndexError")
       ELSE /\ total_students' = df'.rows[1].count
            /\ pc' = "L97"
            /\ UNCHANGED <<button, exc, students, services, total_services>>

\* line 97
L97 ==
    /\ pc = "L97"
    /\ UNCHANGED form
    /\ \E fault \in FetchFaults : Fetch(Q_COUNT_ASSIGN, <<>>, fault)
    /\ ui' = <<>>
    /\ IF call'.raised THEN EndRun("Exception")
       ELSE IF ~HasRow(df') THEN EndRun("IndexError")
       ELSE /\ total_services' = df'.rows[1].count
            /\ pc' = "L99"
            /\ UNCHANGED <<button, exc, students, services, total_students>>

Truthy(cell) == cell # NULL /\ cell[1] # 0

\* line 100
avg_cost(avg_cost_df) ==
    IF ~empty(avg_cost_df) /\ Truthy(avg_cost_df.rows[1].avg_cost)
    THEN Round2(avg_cost_df.rows[1].avg_cost[1], 10000)
    ELSE 0

\* lines 99-104
L99 ==
    /\ pc = "L99"
    /\ UNCHANGED form
    /\ \E fault \in FetchFaults : Fetch(Q_AVG_COST, <<>>, fault)
    /\ IF call'.raised THEN EndRun("Exception") /\ ui' = <<>>
       ELSE /\ ui' = <<"metric", total_students, total_services, avg_cost(df')>>
            /\ pc' = "L111"
            /\ UNCHANGED <<button, exc, locals>>

\* a chart of the frame, or the placeholder text when the frame is empty
ChartOrInfo(frame, text) ==
    IF ~empty(frame) THEN <<"altair_chart", frame>> ELSE <<"info", text>>

\* lines 111-122
L111 ==
    /\ pc = "L111"
    /\ UNCHANGED form
    /\ \E fault \in FetchFaults : Fetch(Q_TOTAL_COST, <<>>, fault)
    /\ IF call'.raised THEN EndRun("Exception") /\ ui' = <<>>
       ELSE /\ ui' = ChartOrInfo(df', "No cost data available.")
            /\ pc' = "L134"
            /\ UNCHANGED <<button, exc, locals>>

\* lines 128-146
L134 ==
    /\ pc = "L134"
    /\ UNCHANGED form
    /\ \E fault \in FetchFaults : Fetch(Q_POPULARITY, <<>>, fault)
    /\ IF call'.raised THEN EndRun("Exception") /\ ui' = <<>>
       ELSE /\ ui' = ChartOrInfo(df', "No service data available.")
            /\ pc' = "L155"
            /\ UNCHANGED <<button, exc, locals>>

\* lines 153-172
L155 ==
    /\ pc = "L155"
    /\ UNCHANGED form
    /\ \E search_term \in SearchInputs, fault \in FetchFaults :
          IF search_term # ""
          THEN Fetch(Q_HISTORY_LIKE, <<search_term>>, fault)
          ELSE Fetch(Q_HISTORY, <<>>, fault)
    /\ IF call'.raised THEN EndRun("Exception") /\ ui' = <<>>
       ELSE /\ ui' = <<"dataframe", df'>>
            /\ pc' = "L180"
            /\ UNCHANGED <<button, exc, locals>>

\* lines 180-181
L180 ==
    /\ pc = "L180"
    /\ UNCHANGED form
    /\ \E fault \in FetchFaults : Fetch(Q_STUDENTS, <<>>, fault)
    /\ IF call'.raised THEN EndRun("Exception") /\ ui' = <<>>
       ELSE /\ ui' = <<"dataframe", df'>>
            /\ pc' = "L186"
            /\ UNCHANGED <<button, exc, locals>>

\* a handler without st.rerun(): the script goes on below the handler
AfterCommand_no_rerun(next) ==
    /\ ui' = <<call'.signal>>
    /\ IF call'.raised THEN EndRun("Exception")
       ELSE /\ pc' = next
            /\ button' = FALSE
            /\ UNCHANGED <<exc, locals>>

\* after run_query at a handler that ends with st.rerun(); next is the line
\* that follows the handler
AfterCommand(next) ==
    /\ ui' = <<call'.signal>>
    /\ IF call'.raised THEN EndRun("Exception") ELSE Rerun

\* lines 186-198: "Save Student" was clicked
SaveStudent ==
    /\ pc = "L186"
    /\ UNCHANGED form
    /\ button
    /\ \E s_id \in IdInputs, f_name \in FirstNameInputs,
          l_name \in LastNameInputs, email \in EmailInputs :
          IF s_id # "" /\ f_name # ""
          THEN /\ \E fault \in RunFaults : \E kind \in Kinds(fault) :
                     Run(INSERT_STUDENT, <<s_id, f_name, l_name, email>>,
                         fault, kind, "RESTRICT")
               /\ AfterCommand("L214")
          ELSE /\ ui' = <<"warning", "Missing details.">>
               /\ pc' = "L214"
               /\ button' = FALSE
               /\ UNCHANGED <<tables, dal, locals, exc>>

\* lines 200-206: "Delete" was clicked
DeleteStudent ==
    /\ pc = "L186"
    /\ UNCHANGED form
    /\ button
    /\ \E del_id \in IdInputs :
          IF del_id # ""
          THEN /\ \E fault \in RunFaults : \E kind \in Kinds(fault) :
                  \E rule \in Rules(DELETE_STUDENT) :
                     Run(DELETE_STUDENT, <<del_id>>, fault, kind, rule)
               /\ AfterCommand("L214")
          ELSE /\ ui' = <<>>
               /\ pc' = "L214"
               /\ button' = FALSE
               /\ UNCHANGED <<tables, dal, locals, exc>>

\* lines 186-206 when neither button of the tab was clicked
StudentsTabIdle ==
    /\ pc = "L186"
    /\ UNCHANGED form
    /\ pc' = "L214"
    /\ ui' = <<>>
    /\ UNCHANGED <<tables, dal, locals, exc, button>>

\* lines 214-215
L214 ==
    /\ pc = "L214"
    /\ UNCHANGED form
    /\ \E fault \in FetchFaults : Fetch(Q_SERVICES, <<>>, fault)
    /\ IF call'.raised THEN EndRun("Exception") /\ ui' = <<>>
       ELSE /\ ui' = <<"dataframe", df'>>
            /\ pc' = "L220"
            /\ UNCHANGED <<button, exc, locals>>

\* lines 220-227: "Save Service" was clicked
SaveService ==
    /\ pc = "L220"
    /\ UNCHANGED form
    /\ button
    /\ Len(Services) < MaxServices
    /\ \E s_name \in ServiceNameInputs, cost \in BaseCostInputs :
       \E fault \in RunFaults : \E kind \in Kinds(fault) :
          Run(INSERT_SERVICE, <<s_name, cost>>, fault, kind, "RESTRICT")
    /\ AfterCommand("L233")

\* lines 220-227 when the button was not clicked
ServicesTabIdle ==
    /\ pc = "L220"
    /\ UNCHANGED form
    /\ pc' = "L233"
    /\ ui' = <<>>
    /\ UNCHANGED <<tables, dal, locals, exc, button>>

\* line 233
L233 ==
    /\ pc = "L233"
    /\ UNCHANGED form
    /\ \E fault \in FetchFaults : Fetch(Q_ASSIGN_STUDENTS, <<>>, fault)
    /\ ui' = <<>>
    /\ IF call'.raised THEN EndRun("Exception")
       ELSE /\ students' = df'
            /\ pc' = "L234"
            /\ UNCHANGED <<button, exc, services, total_students, total_services>>

\* lines 234-236 and 258-259
L234 ==
    /\ pc = "L234"
    /\ UNCHANGED form
    /\ \E fault \in FetchFaults : Fetch(Q_ASSIGN_SERVICES, <<>>, fault)
    /\ IF call'.raised THEN EndRun("Exception") /\ ui' = <<>>
       ELSE IF ~empty(students) /\ ~empty(df')
       THEN /\ services' = df'
            /\ ui' = <<"selectbox">>
            /\ pc' = "L252"
            /\ UNCHANGED <<button, exc, students, total_students, total_services>>
       ELSE /\ ui' = <<"warning", "Add students and services first.">>
            /\ EndRun("none")

\* line 237: label -> student_id, a later row replaces an earlier equal label
StudentLabel(row) == row.first_name \o " " \o row.last_name
student_options(frame) ==
    [l \in {StudentLabel(frame.rows[i]) : i \in 1..Len(frame.rows)} |->
        LET last == CHOOSE i \in 1..Len(frame.rows) :
                       /\ StudentLabel(frame.rows[i]) = l
                       /\ \A j \in (i + 1)..Len(frame.rows) :
                             StudentLabel(frame.rows[j]) # l
        IN  frame.rows[last].student_id]

\* line 238: label -> (service_id, base_cost)
ServiceLabel(row) == <<row.service_name, row.base_cost>>
service_options(frame) ==
    [l \in {ServiceLabel(frame.rows[i]) : i \in 1..Len(frame.rows)} |->
        LET last == CHOOSE i \in 1..Len(frame.rows) :
                       /\ ServiceLabel(frame.rows[i]) = l
                       /\ \A j \in (i + 1)..Len(frame.rows) :
                             ServiceLabel(frame.rows[j]) # l
        IN  <<frame.rows[last].service_id, frame.rows[last].base_cost>>]

\* the insert given the service's base cost instead of the entered cost
ConfirmParams_base_cost(s_id, svc_id, service_date, default_cost, final_cost) ==
    <<s_id, svc_id, service_date, default_cost>>

\* line 257: the parameters of the insert
ConfirmParams(s_id, svc_id, service_date, default_cost, final_cost) ==
    <<s_id, svc_id, service_date, final_cost>>

\* lines 244-257: "Confirm Service Record" was clicked
Confirm ==
    /\ pc = "L252"
    /\ button
    /\ Len(StudentServices) < MaxAssign
    /\ \E sel_student_label \in DOMAIN student_options(students),
          sel_service_label \in DOMAIN service_options(services),
          service_date \in DateInputs :
       \E final_cost \in FinalCostInputs(service_options(services)[sel_service_label][2]) :
       \E fault \in RunFaults : \E kind \in Kinds(fault) :
          /\ form' = [default_cost |-> service_options(services)[sel_service_label][2],
                      final_cost |-> final_cost, used |-> TRUE]
          /\ Run(INSERT_ASSIGN,
                 ConfirmParams(student_options(students)[sel_student_label],
                               service_options(services)[sel_service_label][1],
                               service_date,
                               service_options(services)[sel_service_label][2],
                               final_cost),
                 fault, kind, "RESTRICT")
    /\ ui' = <<call'.signal>>
    /\ EndRun(IF call'.raised THEN "Exception" ELSE "none")

\* lines 252-257 when the button was not clicked
AssignTabIdle ==
    /\ pc = "L252"
    /\ UNCHANGED form
    /\ ui' = <<>>
    /\ EndRun("none")
    /\ UNCHANGED <<tables, dal>>

\* a connection that was left open is dropped when its object is collected
Reclaim ==
    /\ conns > 0
    /\ conns' = conns - 1
    /\ UNCHANGED <<tables, pc, button, call, df, locals, ui, exc, nfetch, nrun,
                   delete_run, form>>

Next ==
    \/ Interact
    \/ L96
    \/ L97
    \/ L99
    \/ L111
    \/ L134
    \/ L155
    \/ L180
    \/ SaveStudent
    \/ DeleteStudent
    \/ StudentsTabIdle
    \/ L214
    \/ SaveService
    \/ ServicesTabIdle
    \/ L233
    \/ L234
    \/ Confirm
    \/ AssignTabIdle
    \/ Reclaim

Spec == Init /\ [][Next]_vars

----------------------------------------------------------------------------
(* Properties *)

\* this step is a call of run_query
RunStep == nrun' = nrun + 1

\* the number of %s placeholders of a write statement
Placeholders(query) ==
    CASE query = INSERT_STUDENT -> 4
      [] query = DELETE_STUDENT -> 1
      [] query = INSERT_SERVICE -> 2
      [] query = INSERT_ASSIGN -> 4

\* the single-row change a committed statement makes to its table (a delete
\* of an absent key removes nothing; the rows that referenced a deleted
\* student go with it)
ExpectedChange(query, params) ==
    CASE query = INSERT_STUDENT ->
            /\ Students' = Students \cup {[student_id |-> params[1],
                                           first_name |-> params[2],
                                           last_name |-> params[3],
                                           email |-> params[4]]}
            /\ Cardinality(Students') = Cardinality(Students) + 1
            /\ UNCHANGED <<Services, StudentServices>>
      [] query = DELETE_STUDENT ->
            /\ Students' = {s \in Students : s.student_id # params[1]}
            /\ Cardinality(Students) - Cardinality(Students') \in {0, 1}
            /\ StudentServices' =
                  SelectSeq(StudentServices, LAMBDA r : r.student_id # params[1])
            /\ UNCHANGED Services
      [] query = INSERT_SERVICE ->
            /\ Len(Services') = Len(Services) + 1
            /\ SubSeq(Services', 1, Len(Services)) = Services
            /\ Services'[Len(Services')].service_name = params[1]
            /\ Services'[Len(Services')].base_cost = params[2]
            /\ UNCHANGED <<Students, StudentServices>>
      [] query = INSERT_ASSIGN ->
            /\ Len(StudentServices') = Len(StudentServices) + 1
            /\ SubSeq(StudentServices', 1, Len(StudentServices)) = StudentServices
            /\ StudentServices'[Len(StudentServices')] =
                  [student_id |-> params[1], service_id |-> params[2],
                   service_date |-> params[3], service_cost |-> params[4]]
            /\ UNCHANGED <<Students, Services>>

\* C1: a run_query call whose parameters match its placeholders and in which
\* only the store may fail (connect, cursor, execute, commit) ends in exactly
\* one of two ways: the committed single-row change with the success toast,
\* or an untouched store with the error message.
C1_CommandAllOrNothing ==
    [][(/\ RunStep
        /\ call'.error # "other"
        /\ Len(call'.params) = Placeholders(call'.query))
       => \/ /\ call'.signal = "toast"
             /\ call'.error = "none"
             /\ ExpectedChange(call'.query, call'.params)
          \/ /\ call'.signal = "error"
             /\ call'.error = "db"
             /\ UNCHANGED tables]_vars

\* the statement was executed and the commit failed: error, nothing stored
C1_Witness ==
    /\ call.op = "run_query"
    /\ call.fault = "commit"
    /\ call.error = "db"
    /\ call.signal = "error"
    /\ call.query = INSERT_STUDENT
    /\ ~HasStudent(Students, call.params[1])

FetchFailed == call.op = "fetch_data" /\ call.fault # "none"

\* what the store answers to the last query
StoreResult ==
    Select(call.query, call.params, Students, Services, StudentServices)

\* C2 as claimed: a failed fetch_data raises nothing, and where the query
\* matches no row it returns the very table the successful query returns.
C2_FailureLooksLikeNoRows ==
    FetchFailed => /\ ~call.raised
                   /\ Len(StoreResult.rows) = 0 => df = StoreResult

\* C2: a failed fetch_data (connect, read_sql or close raising) raises
\* nothing and returns the table without rows and without columns, which
\* tests as empty.
C2_FailureReturnsEmptyFrame ==
    FetchFailed => /\ ~call.raised
                   /\ df = EmptyDataFrame
                   /\ empty(df)

\* the query found rows, closing the connection failed, the rows are dropped
C2_Witness ==
    /\ FetchFailed
    /\ call.fault = "close"
    /\ Len(StoreResult.rows) > 0
    /\ df = EmptyDataFrame

\* C3: no connection opened by a finished call is still open.
C3_NoConnectionLeftOpen ==
    conns = 0 /\ call.conn # "open"

\* C4: run_query leaves neither the connection nor the cursor it acquired
\* open, whether it committed, caught a database error or let another
\* exception through.
C4_RunQueryReleases ==
    call.op = "run_query" =>
        /\ (call.fault # "connect" => call.conn = "closed")
        /\ (call.fault \notin {"connect", "cursor"} => call.cursor = "closed")
        /\ call.conn # "open"
        /\ call.cursor # "open"

\* an exception that is no database error left run_query from execute
C4_Witness ==
    /\ call.op = "run_query"
    /\ call.fault = "execute"
    /\ call.raised
    /\ call.conn = "closed"
    /\ call.cursor = "closed"

FetchSucceeded == call.op = "fetch_data" /\ call.fault = "none"

\* C5: when the store does not fail, fetch_data returns the store's result of
\* the query at call time; all Students are returned with their four fields,
\* and an empty table gives no rows under the expected columns.
C5_FetchMatchesStore ==
    FetchSucceeded =>
        /\ ~call.raised
        /\ df = StoreResult
        /\ call.query = Q_STUDENTS =>
              /\ df.columns = <<"student_id", "first_name", "last_name", "email">>
              /\ {df.rows[i] : i \in 1..Len(df.rows)} = Students
              /\ Len(df.rows) = Cardinality(Students)
        /\ call.query = Q_COUNT_STUDENTS =>
              df.rows = <<[count |-> Cardinality(Students)]>>

\* the one student that was saved is the one row the next fetch returns
C5_Witness ==
    /\ FetchSucceeded
    /\ call.query = Q_STUDENTS
    /\ df.rows = <<[student_id |-> "S104", first_name |-> "Ada",
                    last_name |-> "Lovelace", email |-> "ada@example.com"]>>

\* this step is a call of run_query with the Student-delete statement
DeleteStep == RunStep /\ call'.query = DELETE_STUDENT

C7_CostsNonNegative ==
    /\ \A i \in 1..Len(Services) : Services[i].base_cost >= 0
    /\ \A i \in 1..Len(StudentServices) : StudentServices[i].service_cost >= 0

\* total_cost of the student's row of vw_total_cost_per_student, 0 without one
TotalCostOf(T, SS, id) ==
    LET rows == TotalCostRows(T, SS)
    IN  IF \E i \in 1..Len(rows) : rows[i].student_id = id
        THEN rows[CHOOSE i \in 1..Len(rows) : rows[i].student_id = id].total_cost
        ELSE 0

\* this step is the run_query call of "Confirm Service Record"
ConfirmStep == RunStep /\ call'.query = INSERT_ASSIGN

\* C8: a committed "Confirm Service Record" stores the final cost of the form,
\* and the student's total in the total-cost view grows by that final cost
\* while the other students' totals stay.
C8_FinalCostStored ==
    [][(ConfirmStep /\ call'.signal = "toast")
       => /\ HasStudent(Students, call'.params[1])
          /\ StudentServices'[Len(StudentServices')].service_cost = form'.final_cost
          /\ \A i \in 1..Len(StudentIds) :
                TotalCostOf(Students', StudentServices', StudentIds[i]) =
                   TotalCostOf(Students, StudentServices, StudentIds[i])
                   + (IF StudentIds[i] = call'.params[1]
                      THEN form'.final_cost ELSE 0)]_vars

\* base cost 25.00, final cost 20.00: the student's total_cost is 20.00
C8_Witness ==
    /\ call.op = "run_query"
    /\ call.query = INSERT_ASSIGN
    /\ call.signal = "toast"
    /\ form.used
    /\ form.default_cost = 2500
    /\ form.final_cost = 2000
    /\ TotalCostOf(Students, StudentServices, call.params[1]) = 2000

\* the script has finished the work of an interaction
Finished == pc = "idle" /\ call.op # "none"

\* C9 as claimed: an interaction makes exactly one call into the layer.
C9_OneCallPerInteraction ==
    Finished => nfetch + nrun = 1

\* C9: an interaction makes at most one run_query call and a sequence of
\* fetch_data calls: ten when the script runs through (the last call is
\* run_query exactly when "Confirm Service Record" ran), seventeen or
\* eighteen when a command of the second or third tab restarted the script;
\* fewer only when an exception ended the script.  Each call opens at most
\* one connection.
C9_CallsPerInteraction ==
    /\ nrun \in {0, 1}
    /\ nfetch \in 0..18
    /\ pc # "idle" /\ pc # "L96" => nfetch >= 1
    /\ Finished => nfetch >= 1
    /\ Finished /\ exc = "none" =>
          \/ nrun = 0 /\ nfetch = 10 /\ call.op = "fetch_data"
          \/ nrun = 1 /\ nfetch = 10 /\ call.op = "run_query"
                      /\ call.query = INSERT_ASSIGN
          \/ nrun = 1 /\ nfetch = 17 /\ call.op = "fetch_data"
          \/ nrun = 1 /\ nfetch = 18 /\ call.op = "fetch_data"

\* "Save Student" ran, the script started again and ran through
C9_Witness ==
    /\ Finished
    /\ exc = "none"
    /\ nrun = 1
    /\ nfetch = 17

\* C10: no run of the script ends with the IndexError of reading row 0 of an
\* empty table.
C10_NoUnhandledException ==
    exc # "IndexError"

====
